---- MODULE Spec2Model ----
(***************************************************************************)
(* A model of naucse/models.py: the lazy lesson loader of a Course         *)
(* (get_lesson_shim, load_lessons, the _frozen load step), URL resolution  *)
(* through the Root, prev/next chaining and session time defaults.         *)
(*                                                                         *)
(* Slugs are strings in the program; here a lesson slug is a number of     *)
(* 1..MaxSlug, 0 stands for the empty string '' (the one falsy string),    *)
(* and None is -1.                                                         *)
(***************************************************************************)
EXTENDS Integers, Sequences, FiniteSets, TLC

\* ---------------------------------------------------------------- bounds
MaxSlug == 2
MaxMaterials == 1
MaxNodes == 4
MaxSessions == 2
MaxDate == 2
MaxObjects == 4
MaxNames == 2
\* The renderer calls one freeze is followed for.
MaxRounds == 60
MaxFields == 2
MaxCourses == 3
MaxIndexed == 3

\* ------------------------------------------------------- program values
None == -1
EmptySlug == 0
LinkDepth == 50
CourseSlug == "courses/x"

Slugs == 1..MaxSlug

\* Python truthiness of an optional string: None and '' are falsy.
Truthy(s) == s # None /\ s # EmptySlug

\* The same for a URL, a string here.
TruthyUrl(u) == u # "None" /\ u # ""

\* ---------------------------------------------------------- exceptions
\* class NoURL(LookupError), class NoURLType(NoURL); KeyError is a LookupError.
Bases(exc) ==
    CASE exc = "NoURLType" -> {"NoURL"}
      [] exc = "NoURL" -> {"LookupError"}
      [] exc = "KeyError" -> {"LookupError"}
      [] OTHER -> {}

\* isinstance(exc, cls): what an `except cls` clause catches.
IsInstance(exc, cls) ==
    \/ exc = cls
    \/ cls \in Bases(exc)
    \/ \E b \in Bases(exc) : cls \in Bases(b)

VARIABLES
    lessons,        \* Course.lessons: slug -> Lesson
    lesson_shims,   \* Course._lesson_shims: slug -> LessonShim
    frozen,         \* Course._frozen
    materials,      \* the Materials of the Course's sessions, in iteration order
    pc,             \* position of the _frozen load step: idle, while, failed
    link_depth,     \* the local link_depth of the _frozen load step
    renderer,       \* the external renderer's behaviour
    render,         \* renderer calls made by the operation in progress
    last,           \* the operation last performed and its outcome
    url_factories,  \* Root.url_factories: url_type -> (type -> builder)
    sequence,       \* the objects handed to set_prev_next, in order
    attrs,          \* object -> its prev and next attributes, once set
    data,           \* the course data being loaded
    fields,         \* the Course fields loaded so far: name -> value
    heap,           \* the Model objects constructed so far, by identity
    naucse__fields  \* cls._naucse__fields of the class whose schema is built

courseVars == <<lessons, lesson_shims, frozen, materials, pc, link_depth,
                renderer, render>>

loadVars == <<sequence, attrs, data, fields>>

vars == <<courseVars, last, url_factories, loadVars, heap, naucse__fields>>

\* ------------------------------------------------------------- objects
LessonShim(slug) == [slug |-> slug, course |-> CourseSlug]

\* A Lesson object; id tells the objects apart: two loads of one slug give
\* two objects.
Lesson(slug, id) == [parent |-> CourseSlug, slug |-> slug, id |-> id]

\* The identity of the next Lesson object: one that no stored Lesson has.
new_id(ls) ==
    LET ids == {ls[k].id : k \in DOMAIN ls}
    IN IF ids = {} THEN 1 ELSE 1 + CHOOSE i \in ids : \A j \in ids : j <= i

\* A loaded Lesson as the object whose URL is asked for.
LessonObj(slug) == [type |-> "Lesson", slug |-> slug]

Material(lesson_slug, external_url) ==
    [lesson_slug |-> lesson_slug, external_url |-> external_url]

Pop(f, k) == [x \in DOMAIN f \ {k} |-> f[x]]

\* ------------------------------------------------- Course.get_lesson_shim
\* Variant: the new LessonShim is returned but not kept in _lesson_shims.
get_lesson_shim_unkept(ls, sh, fz, slug) ==
    IF slug \in DOMAIN ls
    THEN [kind |-> "Lesson", slug |-> slug, shims |-> sh]
    ELSE IF ~fz
         THEN [kind |-> "LessonShim", slug |-> slug, shims |-> sh]
         ELSE [kind |-> "KeyError", slug |-> slug, shims |-> sh]

\* Variant: the _frozen test is left out.
get_lesson_shim_unguarded(ls, sh, fz, slug) ==
    IF slug \in DOMAIN ls
    THEN [kind |-> "Lesson", slug |-> slug, shims |-> sh]
    ELSE IF slug \in DOMAIN sh
         THEN [kind |-> "LessonShim", slug |-> sh[slug].slug, shims |-> sh]
         ELSE [kind |-> "LessonShim", slug |-> slug,
               shims |-> (slug :> LessonShim(slug)) @@ sh]

\* The value returned (or the error raised) and the requested set afterwards.
get_lesson_shim(ls, sh, fz, slug) ==
    IF slug \in DOMAIN ls
    THEN [kind |-> "Lesson", slug |-> slug, shims |-> sh]
    ELSE IF ~fz
         THEN IF slug \in DOMAIN sh
              THEN [kind |-> "LessonShim", slug |-> sh[slug].slug, shims |-> sh]
              ELSE [kind |-> "LessonShim", slug |-> slug,
                    shims |-> (slug :> LessonShim(slug)) @@ sh]
         ELSE [kind |-> "KeyError", slug |-> slug, shims |-> sh]

\* --------------------------------------------------------- the renderer
\* The content the renderer serves: what the pages of lesson k link to.
\* "none": nothing; "self": the lesson itself; "chain": lesson k+1, the last
\* lesson of the n to nothing or, in a cycle, to lesson 1.
NoBad == 0
BadSlugs == {1, 3}

ContentRefs(k) ==
    CASE renderer.mode = "none" -> {}
      [] renderer.mode = "self" -> {k}
      [] renderer.mode = "chain" ->
            IF k < renderer.n THEN {k + 1}
            ELSE IF renderer.cyclic THEN {1} ELSE {}

Orderings(S) ==
    {q \in [1..Cardinality(S) -> S] : \A i, j \in DOMAIN q : i # j => q[i] # q[j]}

\* naucse_render.get_lessons(slugs): a mapping slug -> lesson data, here the
\* sequence of its items in the mapping's order; the data of a lesson is the
\* set of lesson slugs its pages' content links to. A lossy renderer may
\* leave out slugs it was asked for. The data of the lesson renderer.bad is
\* broken: a page of it links to a static file the lesson does not have.
Rendered(slugs) ==
    UNION {{[i \in DOMAIN q |-> [slug |-> q[i], refs |-> ContentRefs(q[i]),
                                 broken |-> (q[i] = renderer.bad)]] :
            q \in Orderings(R)} :
           R \in {R \in SUBSET slugs : renderer.lossy \/ R = slugs}}

ReturnedSlugs(rendered) == {rendered[i].slug : i \in DOMAIN rendered}

\* ----------------------------------------------------- Course.load_lessons
\* reg.load(Lesson, data, parent=self): sanitizing the pages' content calls
\* course.get_lesson_shim for every lesson the content links to.
RECURSIVE load_refs(_, _, _, _)
load_refs(ls, sh, fz, refs) ==
    IF refs = {} THEN [error |-> "None", shims |-> sh]
    ELSE LET r == CHOOSE x \in refs : \A y \in refs : x <= y
             got == get_lesson_shim(ls, sh, fz, r)
         IN IF got.kind = "KeyError"
            THEN [error |-> "KeyError", shims |-> got.shims]
            ELSE load_refs(ls, got.shims, fz, refs \ {r})

\* Variant: a loaded lesson stays in the request.
RECURSIVE load_rendered_unpopped(_, _, _, _)
load_rendered_unpopped(ls, sh, fz, rendered) ==
    IF rendered = <<>>
    THEN [lessons |-> ls, shims |-> sh, error |-> "None"]
    ELSE LET item == Head(rendered)
             loaded == load_refs(ls, sh, fz, item.refs)
         IN IF item.broken
            THEN [lessons |-> ls, shims |-> sh, error |-> "KeyError"]
            ELSE IF loaded.error # "None"
            THEN [lessons |-> ls, shims |-> loaded.shims, error |-> loaded.error]
            ELSE load_rendered_unpopped((item.slug :> Lesson(item.slug, new_id(ls))) @@ ls,
                                        loaded.shims, fz, Tail(rendered))

\* Variant: a lesson whose data fails to load is dropped from the request and
\* the loop goes on.
RECURSIVE load_rendered_skipping(_, _, _, _)
load_rendered_skipping(ls, sh, fz, rendered) ==
    IF rendered = <<>>
    THEN [lessons |-> ls, shims |-> sh, error |-> "None"]
    ELSE LET item == Head(rendered)
             loaded == load_refs(ls, sh, fz, item.refs)
         IN IF item.broken
            THEN load_rendered_skipping(ls, Pop(sh, item.slug), fz, Tail(rendered))
            ELSE IF loaded.error # "None"
            THEN [lessons |-> ls, shims |-> loaded.shims, error |-> loaded.error]
            ELSE load_rendered_skipping((item.slug :> Lesson(item.slug, new_id(ls))) @@ ls,
                                        Pop(loaded.shims, item.slug), fz,
                                        Tail(rendered))

\* The loop over rendered.items(): the first lesson that fails to load ends
\* it with the error; the lessons stored before it stay stored.
RECURSIVE load_rendered(_, _, _, _)
load_rendered(ls, sh, fz, rendered) ==
    IF rendered = <<>>
    THEN [lessons |-> ls, shims |-> sh, error |-> "None"]
    ELSE LET item == Head(rendered)
             loaded == load_refs(ls, sh, fz, item.refs)
         IN IF item.broken
            THEN [lessons |-> ls, shims |-> sh, error |-> "KeyError"]
            ELSE IF loaded.error # "None"
            THEN [lessons |-> ls, shims |-> loaded.shims, error |-> loaded.error]
            ELSE load_rendered((item.slug :> Lesson(item.slug, new_id(ls))) @@ ls,
                               Pop(loaded.shims, item.slug), fz, Tail(rendered))

\* Variant: the loaded lessons are not taken out of the request.
load_lessons_arg_all(ls, given) == given

\* The argument of the one renderer call.
load_lessons_arg(ls, given) == given \ DOMAIN ls

\* ------------------------------------------------- Material.get_lesson_shim
\* The requested set after material.get_lesson_shim() for every material.
RECURSIVE request_materials(_, _, _, _)
request_materials(ls, sh, fz, ms) ==
    IF ms = <<>> THEN sh
    ELSE LET m == Head(ms)
         IN IF Truthy(m.lesson_slug)
            THEN request_materials(
                     ls, get_lesson_shim(ls, sh, fz, m.lesson_slug).shims, fz, Tail(ms))
            ELSE request_materials(ls, sh, fz, Tail(ms))

\* ---------------------------------------------------------- Root._url_for
UrlTypes == {"web", "api"}
Types == {"Lesson", "Page"}
Builders == {"f", "g"}

\* What the builder b returns for obj and the external flag.
Call(b, obj, external) == [builder |-> b, obj |-> obj, external |-> external]

\* Variant: one error for both failed lookups.
url_for_one_error(factories, obj, url_type, obj_type, external) ==
    LET type == IF obj_type = "None" THEN obj.type ELSE obj_type
    IN IF url_type \notin DOMAIN factories
       THEN [kind |-> "NoURL", arg |-> type]
       ELSE IF type \notin DOMAIN factories[url_type]
       THEN [kind |-> "NoURL", arg |-> type]
       ELSE [kind |-> "url",
             value |-> Call(factories[url_type][type], obj, external)]

\* obj_type is "None" when the caller does not pass it.
url_for(factories, obj, url_type, obj_type, external) ==
    IF url_type \notin DOMAIN factories
    THEN [kind |-> "NoURLType", arg |-> url_type]
    ELSE LET urls == factories[url_type]
             type == IF obj_type = "None" THEN obj.type ELSE obj_type
         IN IF type \notin DOMAIN urls
            THEN [kind |-> "NoURL", arg |-> type]
            ELSE [kind |-> "url", value |-> Call(urls[type], obj, external)]

\* Model.get_url(url_type='web', external=False)
model_get_url(factories, obj, url_type, external) ==
    url_for(factories, obj, url_type, "None", external)

\* ------------------------------------------------------- Material.get_url
\* Variant: the url_type is not tested.
material_get_url_any_type(ls, sh, fz, factories, m, url_type, external) ==
    IF Truthy(m.lesson_slug)
    THEN LET got == get_lesson_shim(ls, sh, fz, m.lesson_slug)
         IN [shims |-> got.shims,
             result |->
                IF got.kind = "KeyError"
                THEN [kind |-> "KeyError", arg |-> m.lesson_slug]
                ELSE IF got.kind = "LessonShim"
                THEN [kind |-> "AttributeError", arg |-> "get_url"]
                ELSE model_get_url(factories, LessonObj(got.slug), "web", external)]
    ELSE [shims |-> sh,
          result |->
             IF TruthyUrl(m.external_url)
             THEN [kind |-> "url", value |-> m.external_url]
             ELSE [kind |-> "None"]]

\* The outcome and the requested set afterwards. A LessonShim has no get_url.
material_get_url(ls, sh, fz, factories, m, url_type, external) ==
    IF Truthy(m.lesson_slug)
    THEN LET got == get_lesson_shim(ls, sh, fz, m.lesson_slug)
         IN [shims |-> got.shims,
             result |->
                IF got.kind = "KeyError"
                THEN [kind |-> "KeyError", arg |-> m.lesson_slug]
                ELSE IF got.kind = "LessonShim"
                THEN [kind |-> "AttributeError", arg |-> "get_url"]
                ELSE model_get_url(factories, LessonObj(got.slug), "web", external)]
    ELSE [shims |-> sh,
          result |->
             IF url_type # "web"
             THEN [kind |-> "NoURLType", arg |-> url_type]
             ELSE IF TruthyUrl(m.external_url)
             THEN [kind |-> "url", value |-> m.external_url]
             ELSE [kind |-> "None"]]

\* Material.get_lesson_shim()
material_get_lesson_shim(ls, sh, fz, m) ==
    IF Truthy(m.lesson_slug)
    THEN LET got == get_lesson_shim(ls, sh, fz, m.lesson_slug)
         IN [shims |-> got.shims, result |-> [kind |-> got.kind, slug |-> got.slug]]
    ELSE [shims |-> sh, result |-> [kind |-> "None"]]

\* Variant: a round leaves the depth as it was.
next_depth_same(depth) == depth

\* link_depth -= 1
next_depth(depth) == depth - 1

\* Variant: the depth is never tested.
depth_unchecked(depth) == FALSE

\* The test that ends the _frozen load step with an error.
depth_exceeded(depth) == depth < 0

\* ------------------------------------------------------------------ Init
\* self._frozen = False
CourseInitFrozen == FALSE

NoCall == [n |-> 0, arg |-> {}]

Op(op, slug, slugs, result) ==
    [op |-> op, slug |-> slug, slugs |-> slugs, result |-> result]

MaterialInputs ==
    {Material(s, "None") : s \in Slugs \cup {None, EmptySlug}}

AllFactories ==
    [t \in UrlTypes |-> [c \in Types |-> IF c = "Lesson" THEN "f" ELSE "g"]]

\* The contents the renderer may serve: no links, links of a lesson to
\* itself, a chain and a cycle through all lessons.
Worlds ==
    {[mode |-> m, n |-> MaxSlug, cyclic |-> FALSE, lossy |-> FALSE,
      bad |-> NoBad] :
     m \in {"none", "self"}}
    \cup {[mode |-> "chain", n |-> MaxSlug, cyclic |-> c, lossy |-> FALSE,
              bad |-> NoBad] :
          c \in BOOLEAN}

\* Nothing is being loaded and no prev/next attribute is set.
NoData == [default_time |-> [kind |-> "None"], sessions |-> <<>>]

LoadInit ==
    /\ sequence = <<>>
    /\ attrs = <<>>
    /\ data = NoData
    /\ fields = <<>>
    /\ heap = <<>>
    /\ naucse__fields = <<>>

CourseInit ==
    /\ lessons = <<>>
    /\ lesson_shims = <<>>
    /\ frozen = CourseInitFrozen
    /\ pc = "idle"
    /\ link_depth = 0
    /\ render = NoCall
    /\ last = Op("__init__", None, {}, [kind |-> "None"])

Init ==
    /\ CourseInit
    /\ LoadInit
    /\ materials \in [1..MaxMaterials -> MaterialInputs]
    /\ renderer \in Worlds
    /\ url_factories = AllFactories

\* --------------------------------------------------------------- actions
GetLessonShim(slug) ==
    /\ pc = "idle"
    /\ LET got == get_lesson_shim(lessons, lesson_shims, frozen, slug)
       IN /\ lesson_shims' = got.shims
          /\ last' = Op("get_lesson_shim", slug, {},
                        [kind |-> got.kind, slug |-> got.slug])
    /\ render' = NoCall
    /\ UNCHANGED <<lessons, frozen, materials, pc, link_depth, renderer,
                   url_factories, naucse__fields, loadVars, heap>>

LoadLessons(given) ==
    /\ pc = "idle"
    /\ LET arg == load_lessons_arg(lessons, given)
       IN \E rendered \in Rendered(arg) :
            LET r == load_rendered(lessons, lesson_shims, frozen, rendered)
            IN /\ lessons' = r.lessons
               /\ lesson_shims' = r.shims
               /\ render' = [n |-> 1, arg |-> arg]
               /\ last' = Op("load_lessons", None, given,
                             [kind |-> r.error,
                              returned |-> ReturnedSlugs(rendered)])
    /\ UNCHANGED <<frozen, materials, pc, link_depth, renderer, url_factories, naucse__fields, loadVars, heap>>

MaterialGetLessonShim(i) ==
    /\ pc = "idle"
    /\ LET r == material_get_lesson_shim(lessons, lesson_shims, frozen, materials[i])
       IN /\ lesson_shims' = r.shims
          /\ last' = Op("Material.get_lesson_shim", materials[i].lesson_slug, {},
                        r.result)
    /\ render' = NoCall
    /\ UNCHANGED <<lessons, frozen, materials, pc, link_depth, renderer,
                   url_factories, naucse__fields, loadVars, heap>>

MaterialGetUrl(i, url_type, external) ==
    /\ pc = "idle"
    /\ LET r == material_get_url(lessons, lesson_shims, frozen, url_factories,
                                 materials[i], url_type, external)
       IN /\ lesson_shims' = r.shims
          /\ last' = [op |-> "Material.get_url",
                       slug |-> materials[i].lesson_slug, slugs |-> {},
                       result |-> r.result, url_type |-> url_type,
                       external |-> external, material |-> materials[i]]
    /\ render' = NoCall
    /\ UNCHANGED <<lessons, frozen, materials, pc, link_depth, renderer,
                   url_factories, naucse__fields, loadVars, heap>>

\* Variant: the loader stores whatever the step returned, so the bare
\* "return" of a repeated run stores None.
loader_store_returned(fz, returned) == returned = "True"

\* What _frozen holds after the loader has run the step: the step's True is
\* stored, and a run that returns without a value leaves the flag alone.
loader_store(fz, returned) == IF returned = "True" THEN TRUE ELSE fz

\* The _frozen load step up to its while loop.
FrozenStart ==
    /\ pc = "idle"
    /\ IF frozen
       THEN /\ last' = Op("_frozen", None, {}, [kind |-> "return"])
            /\ frozen' = loader_store(frozen, "None")
            /\ UNCHANGED <<lesson_shims, pc, link_depth>>
       ELSE /\ lesson_shims' =
                   request_materials(lessons, lesson_shims, frozen, materials)
            /\ link_depth' = LinkDepth
            /\ pc' = "while"
            /\ last' = Op("_frozen", None, {}, [kind |-> "running"])
            /\ UNCHANGED frozen
    /\ render' = NoCall
    /\ UNCHANGED <<lessons, materials, renderer, url_factories, naucse__fields, loadVars, heap>>

\* One test of the while condition and, if it holds, one pass of the loop
\* body; the step ends by returning True, which the loader stores as _frozen.
FrozenRound ==
    /\ pc = "while"
    /\ render.n < MaxRounds
    /\ IF DOMAIN lesson_shims = {}
       THEN /\ frozen' = loader_store(frozen, "True")
            /\ pc' = "idle"
            /\ last' = Op("_frozen", None, {}, [kind |-> "True"])
            /\ UNCHANGED <<lessons, lesson_shims, link_depth, render>>
       ELSE LET arg == load_lessons_arg(lessons, DOMAIN lesson_shims)
            IN \E rendered \in Rendered(arg) :
                 LET r == load_rendered(lessons, lesson_shims, frozen, rendered)
                 IN /\ lessons' = r.lessons
                    /\ lesson_shims' = r.shims
                    /\ render' = [n |-> render.n + 1, arg |-> arg]
                    /\ IF r.error # "None"
                       THEN /\ pc' = "failed"
                            /\ last' = Op("_frozen", None, {}, [kind |-> r.error])
                            /\ UNCHANGED link_depth
                       ELSE IF depth_exceeded(next_depth(link_depth))
                       THEN /\ pc' = "failed"
                            /\ link_depth' = next_depth(link_depth)
                            /\ last' = Op("_frozen", None, {},
                                          [kind |-> "ValueError",
                                           course |-> CourseSlug])
                       ELSE /\ pc' = "while"
                            /\ link_depth' = next_depth(link_depth)
                            /\ UNCHANGED last
                    /\ UNCHANGED frozen
    /\ UNCHANGED <<materials, renderer, url_factories, naucse__fields, loadVars, heap>>

Next ==
    \/ \E slug \in Slugs : GetLessonShim(slug)
    \/ \E given \in SUBSET Slugs : LoadLessons(given)
    \/ \E i \in DOMAIN materials : MaterialGetLessonShim(i)
    \/ \E i \in DOMAIN materials, t \in UrlTypes, e \in BOOLEAN :
          MaterialGetUrl(i, t, e)
    \/ FrozenStart
    \/ FrozenRound

Spec == Init /\ [][Next]_vars

\* ------------------------------------------------- link depth: chains
\* A course whose one material names lesson 1 of a chain or a cycle of n
\* lessons, each linking to the next.
ChainLengths == 49..52

InitDepth ==
    /\ CourseInit
    /\ LoadInit
    /\ materials = <<Material(1, "None")>>
    /\ renderer \in {[mode |-> "chain", lossy |-> l, n |-> n, cyclic |-> c,
                      bad |-> b] :
                     n \in ChainLengths, c \in BOOLEAN, l \in BOOLEAN,
                     b \in {NoBad} \cup BadSlugs}
    /\ url_factories = AllFactories

NextDepth ==
    \/ FrozenStart
    \/ FrozenRound

SpecDepth == InitDepth /\ [][NextDepth]_vars

\* --------------------------------------------------- URLs: builder tables
\* Every table of builders: a url_type may be unregistered, and a registered
\* url_type may lack a builder for a type.
TypeTables == UNION {[T -> Builders] : T \in SUBSET Types}

FactoryTables == UNION {[U -> TypeTables] : U \in SUBSET UrlTypes}

\* The objects URLs are asked for.
Objects == {[type |-> t, slug |-> s] : t \in Types, s \in Slugs}

UrlOp(op, obj, url_type, obj_type, external, result) ==
    [op |-> op, obj |-> obj, url_type |-> url_type, obj_type |-> obj_type,
     external |-> external, result |-> result]

UrlFor(obj, url_type, obj_type, external) ==
    /\ pc = "idle"
    /\ last' = UrlOp("_url_for", obj, url_type, obj_type, external,
                     url_for(url_factories, obj, url_type, obj_type, external))
    /\ UNCHANGED <<courseVars, url_factories, naucse__fields, loadVars, heap>>

ModelGetUrl(obj, url_type, external) ==
    /\ pc = "idle"
    /\ last' = UrlOp("get_url", obj, url_type, "None", external,
                     model_get_url(url_factories, obj, url_type, external))
    /\ UNCHANGED <<courseVars, url_factories, naucse__fields, loadVars, heap>>

InitUrl ==
    /\ CourseInit
    /\ LoadInit
    /\ materials = <<>>
    /\ renderer \in {w \in Worlds : w.mode = "none"}
    /\ url_factories \in FactoryTables

NextUrl ==
    \/ \E obj \in Objects, t \in UrlTypes, c \in Types \cup {"None"},
          e \in BOOLEAN : UrlFor(obj, t, c, e)
    \/ \E obj \in Objects, t \in UrlTypes, e \in BOOLEAN : ModelGetUrl(obj, t, e)

SpecUrl == InitUrl /\ [][NextUrl]_vars

\* ------------------------------------------------------- set_prev_next
\* The for loop over zip(prevs, nows, nexts) from its i-th triple on: two
\* setattr calls per triple. zip stops with its shortest argument.
RECURSIVE set_attrs(_, _, _, _, _)
set_attrs(at, prevs, nows, nexts, i) ==
    IF i > Len(prevs) \/ i > Len(nows) \/ i > Len(nexts)
    THEN at
    ELSE set_attrs((nows[i] :> [prev |-> prevs[i], next |-> nexts[i]]) @@ at,
                   prevs, nows, nexts, i + 1)

\* Variant: the successors are not shifted by one.
set_prev_next_unshifted(at, seq) ==
    set_attrs(at, <<None>> \o seq, seq, seq \o <<None>>, 1)

\* set_prev_next(sequence): [None] + sequence, sequence, sequence[1:] + [None]
set_prev_next(at, seq) ==
    set_attrs(at, <<None>> \o seq, seq, SubSeq(seq, 2, Len(seq)) \o <<None>>, 1)

Nodes == 1..MaxNodes

\* Lists of distinct objects.
NodeLists == UNION {Orderings(T) : T \in SUBSET Nodes}

SetPrevNext ==
    /\ pc = "idle"
    /\ attrs' = set_prev_next(attrs, sequence)
    /\ last' = [op |-> "set_prev_next", result |-> [kind |-> "None"]]
    /\ UNCHANGED <<courseVars, url_factories, naucse__fields, sequence, data, fields, heap>>

InitChain ==
    /\ CourseInit
    /\ materials = <<>>
    /\ renderer \in {w \in Worlds : w.mode = "none"}
    /\ url_factories = AllFactories
    /\ sequence \in NodeLists
    /\ attrs = <<>>
    /\ data = NoData
    /\ fields = <<>>
    /\ heap = <<>>
    /\ naucse__fields = <<>>

NextChain == SetPrevNext

SpecChain == InitChain /\ [][NextChain]_vars

\* ------------------------------------------------------- session times
NoneValue == [kind |-> "None"]

\* int() of a string of decimal digits
RECURSIVE int(_)
int(digits) ==
    IF digits = <<>> THEN 0
    ELSE 10 * int(SubSeq(digits, 1, Len(digits) - 1)) + digits[Len(digits)]

\* time_from_string('HH:MM'); the string is given as what split(':') makes
\* of it, each part a sequence of digits.
time_from_string(time_string) ==
    LET hour == int(time_string[1])
        minute == int(time_string[2])
    IN [kind |-> "time", hour |-> hour, minute |-> minute]

\* TimeIntervalLoader.load
time_interval_load(d) ==
    [kind |-> "dict", start |-> time_from_string(d.start),
     end |-> time_from_string(d.end)]

\* SessionTimeLoader.load: the name `value` is not defined there.
session_time_load(d) == [kind |-> "NameError", arg |-> "value"]

\* datetime.datetime.combine(date, time)
datetime_combine(date, time) ==
    [kind |-> "datetime", date |-> date, hour |-> time.hour,
     minute |-> time.minute]

\* _combine_session_time(session, kind); course is session.course, the
\* fields of the Course loaded so far.
combine_session_time(session, course, kind) ==
    LET time == IF kind = "start" THEN session.start_time ELSE session.end_time
    IN IF "default_time" \notin DOMAIN course
       THEN [kind |-> "AttributeError", arg |-> "default_time"]
       ELSE LET default_time == course.default_time
            IN IF time.kind = "None"
               THEN IF session.date # None /\ default_time.kind # "None"
                    THEN datetime_combine(session.date, default_time[kind])
                    ELSE NoneValue
               ELSE IF time.kind = "time"
               THEN IF session.date # None
                    THEN datetime_combine(session.date, time)
                    ELSE NoneValue
               ELSE time

\* One Session field of kind start or end: the loader runs on a value that
\* is given, an absent optional value is None, then the after_load hook runs.
load_session_time(session, course, given, kind) ==
    IF given = "given"
    THEN session_time_load(given)
    ELSE combine_session_time(session, course, kind)

IsError(v) == v.kind \in {"NameError", "AttributeError"}

\* reg.load(Session, sd, parent=course): date, start_time, end_time in the
\* order of the class body.
load_session(course, sd) ==
    LET s0 == [date |-> sd.date, start_time |-> NoneValue, end_time |-> NoneValue]
        st == load_session_time(s0, course, sd.start_time, "start")
        s1 == [s0 EXCEPT !.start_time = st]
        et == load_session_time(s1, course, sd.end_time, "end")
    IN IF IsError(st) THEN [error |-> st.kind, session |-> s0]
       ELSE IF IsError(et) THEN [error |-> et.kind, session |-> s1]
       ELSE [error |-> "None", session |-> [s1 EXCEPT !.end_time = et]]

\* KeyAttrDictLoader(reg[Session]).load: the sessions in the data's order.
RECURSIVE load_sessions(_, _)
load_sessions(course, sds) ==
    IF sds = <<>>
    THEN [error |-> "None", sessions |-> <<>>]
    ELSE LET one == load_session(course, Head(sds))
         IN IF one.error # "None"
            THEN [error |-> one.error, sessions |-> <<>>]
            ELSE LET rest == load_sessions(course, Tail(sds))
                 IN [error |-> rest.error,
                     sessions |-> <<one.session>> \o rest.sessions]

\* The dates of the sessions that have one.
SessionDates(sessions) ==
    {sessions[i].date : i \in {j \in DOMAIN sessions : sessions[j].date # None}}

\* Variant: the date of the first session that has one.
min_date_first(sessions) ==
    LET I == {j \in DOMAIN sessions : sessions[j].date # None}
    IN IF I = {} THEN None
       ELSE sessions[CHOOSE i \in I : \A j \in I : i <= j].date

\* min((d for d in dates if d), default=None)
min_date(sessions) ==
    LET D == SessionDates(sessions)
    IN IF D = {} THEN None ELSE CHOOSE d \in D : \A e \in D : d <= e

\* max((d for d in dates if d), default=None)
max_date(sessions) ==
    LET D == SessionDates(sessions)
    IN IF D = {} THEN None ELSE CHOOSE d \in D : \A e \in D : d >= e

\* Variant: default_time takes the place of its second declaration.
CourseFieldOrder_redeclared ==
    <<"sessions", "start_date", "end_date", "default_time">>

\* The fields of Course that take part in session times, in the order in
\* which the class body first names them.
CourseFieldOrder == <<"default_time", "sessions", "start_date", "end_date">>

\* The load of the next Course field, with its after_load hook.
LoadField ==
    /\ pc = "load"
    /\ LET name == CourseFieldOrder[Cardinality(DOMAIN fields) + 1]
           done == Cardinality(DOMAIN fields) + 1 = Len(CourseFieldOrder)
           ok == [op |-> "load", field |-> name, result |-> NoneValue]
       IN CASE name = "default_time" ->
                 /\ fields' = (name :>
                       IF data.default_time.kind = "None" THEN NoneValue
                       ELSE time_interval_load(data.default_time)) @@ fields
                 /\ pc' = IF done THEN "idle" ELSE "load"
                 /\ last' = ok
                 /\ UNCHANGED <<sequence, attrs>>
            [] name = "sessions" ->
                 LET r == load_sessions(fields, data.sessions)
                     keys == [i \in 1..Len(r.sessions) |-> i]
                 IN IF r.error # "None"
                    THEN /\ pc' = "failed"
                         /\ last' = [ok EXCEPT !.result = [kind |-> r.error]]
                         /\ UNCHANGED <<fields, sequence, attrs>>
                    ELSE /\ fields' = (name :> r.sessions) @@ fields
                         /\ sequence' = keys
                         /\ attrs' = set_prev_next(attrs, keys)
                         /\ pc' = IF done THEN "idle" ELSE "load"
                         /\ last' = ok
            [] name = "start_date" ->
                 /\ fields' = (name :> min_date(fields.sessions)) @@ fields
                 /\ pc' = IF done THEN "idle" ELSE "load"
                 /\ last' = ok
                 /\ UNCHANGED <<sequence, attrs>>
            [] name = "end_date" ->
                 /\ fields' = (name :> max_date(fields.sessions)) @@ fields
                 /\ pc' = IF done THEN "idle" ELSE "load"
                 /\ last' = ok
                 /\ UNCHANGED <<sequence, attrs>>
    /\ UNCHANGED <<lessons, lesson_shims, frozen, materials, link_depth,
                   renderer, render, url_factories, naucse__fields, data, heap>>

Dates == 1..MaxDate

\* 'HH:MM' strings: 09:00 and 17:30.
TimeStrings == {<< <<0, 9>>, <<0, 0>> >>, << <<1, 7>>, <<3, 0>> >>}

SessionData ==
    [date : Dates \cup {None}, start_time : {"absent", "given"},
     end_time : {"absent", "given"}]

CourseData ==
    [default_time : {NoneValue}
                    \cup [kind : {"given"}, start : TimeStrings, end : TimeStrings],
     sessions : UNION {[1..n -> SessionData] : n \in 0..MaxSessions}]

\* Course.__init__ has run and the fields are about to be loaded.
InitLoad ==
    /\ lessons = <<>>
    /\ lesson_shims = <<>>
    /\ frozen = CourseInitFrozen
    /\ pc = "load"
    /\ link_depth = 0
    /\ render = NoCall
    /\ last = Op("__init__", None, {}, [kind |-> "None"])
    /\ materials = <<>>
    /\ renderer \in {w \in Worlds : w.mode = "none"}
    /\ url_factories = AllFactories
    /\ sequence = <<>>
    /\ attrs = <<>>
    /\ data \in CourseData
    /\ fields = <<>>
    /\ heap = <<>>
    /\ naucse__fields = <<>>

NextLoad == LoadField

SpecLoad == InitLoad /\ [][NextLoad]_vars

\* ------------------------------------------------- the tree of Models
\* An object is known by its place in the heap; 0 is no object.
Unset == 0
CoursesDir == 0
NoSlug == <<>>
LessonsSlug == <<-2, -2>>
Years == {2019, 2020}
Names == 1..MaxNames

\* A new object of class cls, no attribute set yet.
Obj(cls) ==
    [cls |-> cls, root |-> Unset, parent |-> Unset, slug |-> NoSlug,
     year |-> Unset, courses |-> <<>>, run_years |-> <<>>, runs |-> <<>>]

\* Variant: the root of a new object is its parent.
model_init_parent(h, id, self, parent) ==
    [self EXCEPT !.root = parent, !.parent = parent]

\* Model.__init__(self, parent=parent); id is the identity of self, which is
\* not on the heap yet.
model_init(h, id, self, parent) ==
    LET parent_root == IF parent = id THEN self.root ELSE h[parent].root
    IN [self EXCEPT !.root = parent_root, !.parent = parent]

\* Root.__init__
root_init(h) ==
    LET id == Len(h) + 1
        self1 == [Obj("Root") EXCEPT !.root = id]
        self2 == model_init(h, id, self1, id)
    IN Append(h, [self2 EXCEPT !.root = id])

\* RunYear.__init__(year, parent=parent)
run_year_init(h, year, parent) ==
    LET id == Len(h) + 1
        self1 == model_init(h, id, Obj("RunYear"), parent)
    IN Append(h, [self1 EXCEPT !.year = year])

\* Course.load_local(slug, parent=parent, ...): a new Course.
course_load_local(h, slug, parent) ==
    LET id == Len(h) + 1
        self1 == model_init(h, id, Obj("Course"), parent)
    IN Append(h, [self1 EXCEPT !.slug = slug])

\* Root.load_local, first loop: the courses of courses/, in iterdir order.
RECURSIVE load_courses(_, _, _)
load_courses(h, r, names) ==
    IF names = <<>> THEN h
    ELSE LET slug == <<CoursesDir, Head(names)>>
             h1 == course_load_local(h, slug, r)
             course == Len(h1)
         IN load_courses([h1 EXCEPT ![r].courses = (slug :> course) @@ @],
                         r, Tail(names))

\* Variant: the run year gets a Course of its own.
run_courses_twice(h, r, run_year, slug) ==
    LET h1 == course_load_local(h, slug, r)
        h2 == course_load_local(h1, slug, r)
    IN [h2 EXCEPT ![run_year].runs = (slug :> Len(h1)) @@ @,
                  ![r].courses = (slug :> Len(h2)) @@ @]

\* The body of the inner loop: one Course, entered in both maps.
run_courses(h, r, run_year, slug) ==
    LET h1 == course_load_local(h, slug, r)
        course == Len(h1)
    IN [h1 EXCEPT ![run_year].runs = (slug :> course) @@ @,
                  ![r].courses = (slug :> course) @@ @]

\* The inner loop: the courses of one year directory.
RECURSIVE load_runs(_, _, _, _, _)
load_runs(h, r, run_year, year, names) ==
    IF names = <<>> THEN h
    ELSE load_runs(run_courses(h, r, run_year, <<year, Head(names)>>),
                   r, run_year, year, Tail(names))

\* The second loop: the year directories in sorted order.
RECURSIVE load_years(_, _, _)
load_years(h, r, runs) ==
    IF DOMAIN runs = {} THEN h
    ELSE LET year == CHOOSE y \in DOMAIN runs : \A z \in DOMAIN runs : y <= z
             h1 == run_year_init(h, year, r)
             run_year == Len(h1)
             h2 == [h1 EXCEPT ![r].run_years = (year :> run_year) @@ @]
             h3 == load_runs(h2, r, run_year, year, runs[year])
         IN load_years(h3, r, [y \in DOMAIN runs \ {year} |-> runs[y]])

\* Root.load_local: names are the directories of courses/ that hold an
\* info.yml, runs maps each year directory to such directories in it.
load_local(h, r, names, runs) ==
    LET h1 == load_courses(h, r, names)
        h2 == load_years(h1, r, runs)
        h3 == course_load_local(h2, LessonsSlug, r)
    IN [h3 EXCEPT ![r].courses = (LessonsSlug :> Len(h3)) @@ @]

NameLists == UNION {Orderings(T) : T \in SUBSET Names}

RunDirs == UNION {[Y -> NameLists] : Y \in SUBSET Years}

ChildClasses == {"Course", "Session", "Material"}

TreeOp(op, obj) == [op |-> op, obj |-> obj, result |-> [kind |-> "None"]]

RootInit ==
    /\ pc = "idle"
    /\ Len(heap) < MaxObjects
    /\ heap' = root_init(heap)
    /\ last' = TreeOp("Root", Len(heap'))
    /\ UNCHANGED <<courseVars, url_factories, naucse__fields, loadVars>>

\* The construction of a Model under an object that exists.
NewModel(cls, parent) ==
    /\ pc = "idle"
    /\ Len(heap) < MaxObjects
    /\ heap' = Append(heap, model_init(heap, Len(heap) + 1, Obj(cls), parent))
    /\ last' = TreeOp("Model", Len(heap'))
    /\ UNCHANGED <<courseVars, url_factories, naucse__fields, loadVars>>

\* load_local is run on a Root that has just been constructed.
LoadLocal(r) ==
    /\ pc = "idle"
    /\ heap[r].cls = "Root"
    /\ heap[r].courses = <<>>
    /\ Len(heap) = 1
    /\ \E names \in NameLists, runs \in RunDirs :
          heap' = load_local(heap, r, names, runs)
    /\ last' = TreeOp("load_local", r)
    /\ UNCHANGED <<courseVars, url_factories, naucse__fields, loadVars>>

InitTree ==
    /\ CourseInit
    /\ LoadInit
    /\ materials = <<>>
    /\ renderer \in {w \in Worlds : w.mode = "none"}
    /\ url_factories = AllFactories

NextTree ==
    \/ RootInit
    \/ \E cls \in ChildClasses, parent \in DOMAIN heap : NewModel(cls, parent)
    \/ \E r \in DOMAIN heap : LoadLocal(r)

SpecTree == InitTree /\ [][NextTree]_vars

\* -------------------------------------------------- Materials of a Session
\* URLLoader.load: sanitize.convert_link('href', data) hands back a link
\* whose scheme is allowed and refuses any other.
convert_link(url) ==
    IF url = "javascript:x"
    THEN [kind |-> "DisallowedURLScheme", arg |-> url]
    ELSE [kind |-> "url", value |-> url]

\* The data of a Material: each of the two optional fields given or not.
MaterialData ==
    [lesson_slug : Slugs \cup {None, EmptySlug},
     external_url : {"None", "http://x", "javascript:x"}]

\* reg.load(Material, md): the fields external_url and lesson_slug, each
\* loaded by itself; an absent optional field is None.
load_material(md) ==
    LET url == IF md.external_url = "None"
               THEN [kind |-> "url", value |-> "None"]
               ELSE convert_link(md.external_url)
    IN IF url.kind # "url"
       THEN [kind |-> url.kind]
       ELSE [kind |-> "Material",
             material |-> Material(md.lesson_slug, url.value)]

\* The property Material.lesson
material_lesson(ls, m) ==
    IF m.lesson_slug # None
    THEN IF TruthyUrl(m.external_url)
         THEN [kind |-> "ValueError",
               arg |-> "external_url and lesson_slug are incompatible"]
         ELSE IF m.lesson_slug \in DOMAIN ls
         THEN [kind |-> "Lesson", slug |-> m.lesson_slug]
         ELSE [kind |-> "KeyError", arg |-> m.lesson_slug]
    ELSE [kind |-> "None"]

\* Variant: every material is handed to set_prev_next.
linked_materials_all(ms) == [i \in DOMAIN ms |-> i]

\* (m for m in self.materials if not m.external_url): the materials, each
\* named by its place in the list, that set_prev_next is given.
linked_materials(ms) ==
    SelectSeq([i \in DOMAIN ms |-> i], LAMBDA i : ~TruthyUrl(ms[i].external_url))

\* The load of a Session with one Material, and the _index_materials hook.
LoadMaterial(md) ==
    /\ pc = "idle"
    /\ materials = <<>>
    /\ LET r == load_material(md)
           ms == IF r.kind = "Material" THEN <<r.material>> ELSE <<>>
           linked == linked_materials(ms)
       IN /\ materials' = ms
          /\ sequence' = linked
          /\ attrs' = set_prev_next(attrs, linked)
          /\ last' = [op |-> "Material.load", data |-> md,
                      result |-> [kind |-> IF r.kind = "Material" THEN "None"
                                           ELSE r.kind]]
    /\ render' = NoCall
    /\ UNCHANGED <<lessons, lesson_shims, frozen, pc, link_depth, renderer,
                   url_factories, naucse__fields, data, fields, heap>>

MaterialLesson(i) ==
    /\ pc = "idle"
    /\ last' = [op |-> "Material.lesson", material |-> materials[i],
                result |-> material_lesson(lessons, materials[i])]
    /\ render' = NoCall
    /\ UNCHANGED <<lessons, lesson_shims, frozen, materials, pc, link_depth,
                   renderer, url_factories, naucse__fields, loadVars, heap>>

InitMaterial ==
    /\ CourseInit
    /\ LoadInit
    /\ materials = <<>>
    /\ renderer \in Worlds
    /\ url_factories = AllFactories

NextMaterial ==
    \/ \E md \in MaterialData : LoadMaterial(md)
    \/ \E i \in DOMAIN materials : MaterialLesson(i)
    \/ \E i \in DOMAIN materials : MaterialGetLessonShim(i)
    \/ \E i \in DOMAIN materials, t \in UrlTypes, e \in BOOLEAN :
          MaterialGetUrl(i, t, e)
    \/ FrozenStart
    \/ FrozenRound

SpecMaterial == InitMaterial /\ [][NextMaterial]_vars

\* ------------------------------------------------------------- claims
\* C1: while the Course is open, get_lesson_shim(slug) for a slug that is not
\* loaded calls no renderer and leaves the loaded lessons as they are; the
\* slug is in the requested set afterwards (nothing else is added or changed
\* there) and the value returned is the placeholder for that slug.
C1_OpenRequestIsEnqueued ==
    [][(last'.op = "get_lesson_shim" /\ ~frozen
            /\ last'.slug \notin DOMAIN lessons)
        => /\ render'.n = 0
           /\ lessons' = lessons
           /\ DOMAIN lesson_shims' = DOMAIN lesson_shims \cup {last'.slug}
           /\ \A s \in DOMAIN lesson_shims : lesson_shims'[s] = lesson_shims[s]
           /\ lesson_shims'[last'.slug] = LessonShim(last'.slug)
           /\ last'.result = [kind |-> "LessonShim", slug |-> last'.slug]]_vars

C1_Witness ==
    /\ last.op = "get_lesson_shim"
    /\ last.result.kind = "LessonShim"
    /\ ~frozen
    /\ last.slug \in DOMAIN lesson_shims
    /\ last.slug \notin DOMAIN lessons
    /\ render.n = 0

\* C2: load_lessons(slugs) makes one renderer call, for the given slugs that
\* are not loaded yet; when it returns, every slug the renderer returned is a
\* loaded lesson whose parent is the Course and is not requested any more.
C2_LoadLessonsOneCall ==
    [][last'.op = "load_lessons"
        => /\ render'.n = 1
           /\ render'.arg = last'.slugs \ DOMAIN lessons
           /\ last'.result.kind = "None"
                => \A s \in last'.result.returned :
                      /\ s \in DOMAIN lessons'
                      /\ lessons'[s].parent = CourseSlug
                      /\ s \notin DOMAIN lesson_shims']_vars

\* A call that named a loaded lesson and a requested one, and loaded the latter.
C2_Witness ==
    /\ last.op = "load_lessons"
    /\ last.result.kind = "None"
    /\ render.n = 1
    /\ last.slugs \ render.arg # {}
    /\ last.result.returned # {}
    /\ last.result.returned \subseteq DOMAIN lessons

\* C3: on a frozen Course, get_lesson_shim(slug) for a slug that is not loaded
\* raises a KeyError (a LookupError), calls no renderer and requests nothing.
C3_FrozenLookupFails ==
    [][(last'.op = "get_lesson_shim" /\ frozen
            /\ last'.slug \notin DOMAIN lessons)
        => /\ last'.result.kind = "KeyError"
           /\ IsInstance(last'.result.kind, "LookupError")
           /\ render'.n = 0
           /\ lesson_shims' = lesson_shims
           /\ lessons' = lessons]_vars

C3_Witness ==
    /\ last.op = "get_lesson_shim"
    /\ last.result.kind = "KeyError"
    /\ frozen
    /\ last.slug \notin DOMAIN lessons
    /\ DOMAIN lesson_shims = {}

\* C4: a Course is constructed open, and once it is frozen it stays frozen,
\* whatever is called on it, the _frozen step included.
C4_FrozenIsOneWay ==
    /\ frozen = FALSE
    /\ [][frozen => frozen']_vars

\* The _frozen step was run again on a frozen Course.
C4_Witness ==
    /\ frozen
    /\ last.op = "_frozen"
    /\ last.result.kind = "return"

\* C5: when the _frozen step has completed without error, nothing is
\* requested any more, the lesson of every Material whose lesson_slug is not
\* None is loaded, and so is every lesson the loaded lessons link to.
C5_FreezeResolvesAll ==
    (last.op = "_frozen" /\ last.result.kind \in {"True", "return"})
        => /\ DOMAIN lesson_shims = {}
           /\ \A i \in DOMAIN materials :
                 materials[i].lesson_slug # None
                    => materials[i].lesson_slug \in DOMAIN lessons
           /\ \A s \in DOMAIN lessons : ContentRefs(s) \subseteq DOMAIN lessons

\* C7: once the Course is frozen, no operation changes the loaded lessons or
\* the requested set.
C7_FrozenIsImmutable ==
    [][frozen => (lessons' = lessons /\ lesson_shims' = lesson_shims)]_vars

\* C6: the _frozen step of a course whose lessons link in a cycle of more
\* than 50 fails with the error that names the course and leaves the course
\* open; with a chain of 49 lessons it succeeds.
C6_LinkDepthBound ==
    (last.op = "_frozen" /\ pc # "while" /\ renderer.mode = "chain"
            /\ ~renderer.lossy /\ renderer.bad = NoBad)
        => /\ (renderer.cyclic /\ renderer.n > 50)
                => /\ last.result = [kind |-> "ValueError", course |-> CourseSlug]
                   /\ ~frozen
           /\ (~renderer.cyclic /\ renderer.n = 49)
                => /\ last.result.kind \in {"True", "return"}
                   /\ frozen
                   /\ DOMAIN lessons = 1..49

\* A cycle of 51 lessons has failed after its 51st round.
C6_Witness ==
    /\ renderer.cyclic
    /\ renderer.n = 51
    /\ pc = "failed"
    /\ last.result.kind = "ValueError"
    /\ render.n = 51

\* The type whose builder a _url_for call looks up.
C8_Type == IF last.obj_type = "None" THEN last.obj.type ELSE last.obj_type

\* C8: Root._url_for fails with NoURLType when the url_type has no builder
\* table (whether or not the type has a builder in some other table), fails
\* with NoURL when the table of the url_type has no builder for the type,
\* and otherwise returns what the builder registered for the url_type and the
\* type returns for the object and the external flag; NoURLType is a NoURL.
C8_UrlForOutcome ==
    /\ IsInstance("NoURLType", "NoURL")
    /\ last.op \in {"_url_for", "get_url"}
        => /\ last.url_type \notin DOMAIN url_factories
                => last.result.kind = "NoURLType"
           /\ (last.url_type \in DOMAIN url_factories
                    /\ C8_Type \notin DOMAIN url_factories[last.url_type])
                => last.result.kind = "NoURL"
           /\ (last.url_type \in DOMAIN url_factories
                    /\ C8_Type \in DOMAIN url_factories[last.url_type])
                => last.result =
                      [kind |-> "url",
                       value |-> Call(url_factories[last.url_type][C8_Type],
                                      last.obj, last.external)]
           /\ last.result.kind \in {"NoURLType", "NoURL"}
                => IsInstance(last.result.kind, "NoURL")

\* The url_type is not registered and the type has a builder elsewhere.
C8_Witness ==
    /\ last.op = "_url_for"
    /\ last.result.kind = "NoURLType"
    /\ last.obj_type = "None"
    /\ \E t \in DOMAIN url_factories : last.obj.type \in DOMAIN url_factories[t]

\* C9: after set_prev_next on a sequence of N >= 1 distinct nodes, the first
\* node's prev is None, the last node's next is None, and each node's next is
\* the node after it, whose prev is that node.
C9_PrevNextChain ==
    (last.op = "set_prev_next" /\ Len(sequence) >= 1)
        => LET N == Len(sequence)
           IN /\ attrs[sequence[1]].prev = None
              /\ attrs[sequence[N]].next = None
              /\ \A i \in 1..(N - 1) :
                    /\ attrs[sequence[i]].next = sequence[i + 1]
                    /\ attrs[sequence[i + 1]].prev = sequence[i]

C9_Witness ==
    /\ last.op = "set_prev_next"
    /\ Len(sequence) = 3
    /\ attrs[sequence[2]] = [prev |-> sequence[1], next |-> sequence[3]]

\* C10: the default_time of the Course is there when the hooks of its
\* sessions run, and in a loaded Course that has a default_time every Session
\* with a date and no start_time or end_time of its own starts at its date
\* combined with the default start time and ends at its date combined with
\* the default end time; a default start of 09:00 gives 09:00 on that date.
C10_DefaultSessionTimes ==
    /\ last.result.kind # "AttributeError"
    /\ ("sessions" \in DOMAIN fields /\ data.default_time.kind # "None")
        => \A i \in DOMAIN data.sessions :
              LET sd == data.sessions[i]
                  s == fields.sessions[i]
              IN (sd.date # None /\ sd.start_time = "absent"
                        /\ sd.end_time = "absent")
                    => /\ s.start_time = datetime_combine(sd.date,
                              time_from_string(data.default_time.start))
                       /\ s.end_time = datetime_combine(sd.date,
                              time_from_string(data.default_time.end))
                       /\ data.default_time.start = << <<0, 9>>, <<0, 0>> >>
                            => s.start_time = [kind |-> "datetime",
                                               date |-> sd.date,
                                               hour |-> 9, minute |-> 0]

\* A loaded course whose first session runs from 09:00 to 17:30 on its date.
C10_Witness ==
    /\ pc = "idle"
    /\ "sessions" \in DOMAIN fields
    /\ Len(fields.sessions) = MaxSessions
    /\ fields.sessions[1].start_time =
          [kind |-> "datetime", date |-> data.sessions[1].date,
           hour |-> 9, minute |-> 0]
    /\ fields.sessions[1].end_time =
          [kind |-> "datetime", date |-> data.sessions[1].date,
           hour |-> 17, minute |-> 30]

\* The object at the end of the parent links from id, or Unset when there
\* is none within n links.
RECURSIVE C11_Top(_, _)
C11_Top(id, n) ==
    IF heap[id].parent = id THEN id
    ELSE IF n = 0 \/ heap[id].parent \notin DOMAIN heap THEN Unset
    ELSE C11_Top(heap[id].parent, n - 1)

\* C11: a Root is its own root and its own parent, and from every object the
\* parent links lead to a Root, which is the object's root.
C11_RootOfEveryNode ==
    \A id \in DOMAIN heap :
       /\ heap[id].cls = "Root" => (heap[id].root = id /\ heap[id].parent = id)
       /\ heap[id].root \in DOMAIN heap
       /\ heap[heap[id].root].cls = "Root"
       /\ C11_Top(id, Len(heap)) = heap[id].root

\* An object two links below its Root.
C11_Witness ==
    \E id \in DOMAIN heap :
       /\ heap[id].parent # heap[id].root
       /\ heap[heap[id].parent].parent = heap[id].root
       /\ heap[id].root # id

\* C12: every Course in a Root's courses has that Root as its parent, and so
\* has every RunYear; each entry of a RunYear's runs is the object that the
\* Root's courses hold under the same slug.
C12_RunYearSharesCourses ==
    \A r \in DOMAIN heap :
       /\ \A slug \in DOMAIN heap[r].courses :
             LET c == heap[r].courses[slug]
             IN heap[c].cls = "Course" /\ heap[c].parent = r
                  /\ heap[c].slug = slug
       /\ \A year \in DOMAIN heap[r].run_years :
             LET y == heap[r].run_years[year]
             IN /\ heap[y].cls = "RunYear"
                /\ heap[y].parent = r
                /\ \A slug \in DOMAIN heap[y].runs :
                      /\ slug \in DOMAIN heap[r].courses
                      /\ heap[r].courses[slug] = heap[y].runs[slug]

\* A loaded Root with two run years, one of them with two runs.
C12_Witness ==
    /\ last.op = "load_local"
    /\ \E r \in DOMAIN heap :
          /\ DOMAIN heap[r].run_years = Years
          /\ \E year \in Years :
                Cardinality(DOMAIN heap[heap[r].run_years[year]].runs) = 2
          /\ LessonsSlug \in DOMAIN heap[r].courses

\* C13: the load of a Material whose data gives both external_url and
\* lesson_slug fails with a ConversionError, and no Material of a loaded
\* Session has both set.
C13_BothRejectedAtLoad ==
    /\ (last.op = "Material.load" /\ last.data.lesson_slug # None
            /\ last.data.external_url # "None")
        => last.result.kind = "ConversionError"
    /\ \A i \in DOMAIN materials :
          materials[i].lesson_slug = None \/ materials[i].external_url = "None"

\* C19: in an open Course, Material.get_url of a Material whose lesson is not
\* loaded yet returns a URL and calls no renderer.
C19_UrlOfUnloadedLesson ==
    [][(last'.op = "Material.get_url" /\ ~frozen /\ Truthy(last'.slug)
            /\ last'.slug \notin DOMAIN lessons)
        => (last'.result.kind = "url" /\ render'.n = 0)]_vars

\* C20: Material.get_url of a Material without a lesson_slug returns the
\* external_url for the url_type 'web' when there is one and None when there
\* is none, raises NoURLType (a NoURL) for every other url_type, and leaves
\* the lessons and the requested set as they are, with no renderer call.
C20_ReferenceOnlyUrl ==
    [][(last'.op = "Material.get_url" /\ ~Truthy(last'.slug))
        => /\ (last'.url_type = "web" /\ TruthyUrl(last'.material.external_url))
                => last'.result =
                      [kind |-> "url", value |-> last'.material.external_url]
           /\ (last'.url_type = "web" /\ ~TruthyUrl(last'.material.external_url))
                => last'.result = [kind |-> "None"]
           /\ last'.url_type # "web"
                => /\ last'.result.kind = "NoURLType"
                   /\ IsInstance(last'.result.kind, "NoURL")
           /\ lessons' = lessons
           /\ lesson_shims' = lesson_shims
           /\ render'.n = 0]_vars

\* A Material with an external_url only was asked for its api URL.
C20_Witness ==
    /\ last.op = "Material.get_url"
    /\ last.slug = None
    /\ last.material.external_url = "http://x"
    /\ last.url_type = "api"
    /\ last.result.kind = "NoURLType"

\* ------------------------------------------------ the freeze under faults
\* The loop body runs to its end once entered: one thread, and every call of
\* the body returns or raises.
SpecDepthFair == InitDepth /\ [][NextDepth]_vars /\ WF_vars(FrozenRound)

\* C16: one freeze calls the renderer at most 50 times; the depth error is
\* raised without a 51st call.
C16_AtMostFiftyRounds ==
    (last.op = "_frozen") => render.n <= 50

\* C17 (amended): the freeze loop always ends, whatever the renderer returns,
\* with the requested set empty, with the link-depth error, or with the error
\* of a lesson that failed to load.
C17_FreezeTerminates ==
    (pc = "while")
        ~> /\ pc # "while"
           /\ \/ DOMAIN lesson_shims = {}
              \/ last.result.kind \in {"ValueError", "KeyError"}

\* C17 (as stated): a freeze that has ended has the requested set empty or
\* has raised the link-depth error.
C17_EndsEmptyOrDepthError ==
    (last.op = "_frozen" /\ pc # "while")
        => \/ DOMAIN lesson_shims = {}
           \/ last.result.kind = "ValueError"

\* A renderer that omitted every slug it was asked for was stopped by the
\* depth test with the request still pending.
C17_Witness ==
    /\ renderer.lossy
    /\ renderer.bad = NoBad
    /\ pc = "failed"
    /\ last.result.kind = "ValueError"
    /\ DOMAIN lessons = {}
    /\ DOMAIN lesson_shims = {1}

\* C18: a failure in the freeze is not skipped: a step that failed has raised
\* the error of the failed load or the link-depth error, the lesson that
\* fails to load is never stored in lessons, and a course with such a lesson
\* on its chain is never marked frozen.
C18_FailurePropagates ==
    /\ (pc = "failed")
          => /\ last.op = "_frozen"
             /\ last.result.kind \in {"ValueError", "KeyError"}
             /\ ~frozen
    /\ (renderer.bad # NoBad)
          => /\ renderer.bad \notin DOMAIN lessons
             /\ ~frozen
             /\ (last.op = "_frozen" /\ pc # "while")
                    => /\ pc = "failed"
                       /\ last.result.kind \in {"ValueError", "KeyError"}

\* The third lesson of the chain failed to load after the first two were
\* stored.
C18_Witness ==
    /\ renderer.bad = 3
    /\ pc = "failed"
    /\ last.result.kind = "KeyError"
    /\ DOMAIN lessons = {1, 2}
    /\ DOMAIN lesson_shims = {3}
    /\ ~frozen

\* ------------------------------------------------------- Model.get_schema
\* Field(optional=, default=, factory=, input_optional=, output_only=): the
\* arguments that the schema looks at. default is "NOTHING" when not given,
\* factory is "None" when not given.
Fields ==
    [optional : BOOLEAN, default : {"NOTHING", "()"}, factory : {"None", "dict"},
     input_optional : BOOLEAN, output_only : BOOLEAN]

\* Variant: the view is not looked at.
required_in_schema_any_view(self, is_input) ==
    IF self.optional THEN FALSE
    ELSE IF self.default # "NOTHING" THEN FALSE
    ELSE IF self.factory # "None" THEN FALSE
    ELSE IF self.input_optional THEN FALSE
    ELSE TRUE

\* Field.required_in_schema(is_input=...)
required_in_schema(self, is_input) ==
    IF self.optional THEN FALSE
    ELSE IF is_input /\ self.default # "NOTHING" THEN FALSE
    ELSE IF is_input /\ self.factory # "None" THEN FALSE
    ELSE IF is_input /\ self.input_optional THEN FALSE
    ELSE TRUE

\* Field.included_in_schema(is_input=...)
included_in_schema(self, is_input) ==
    IF self.output_only /\ is_input THEN FALSE ELSE TRUE

\* The names of the fields of fs in declaration order.
field_names(fs) == [i \in 1..Len(fs) |-> i]

\* cls.get_schema(is_input=...) of a class without a docstring: the required
\* list (the key is left out when the list is empty) and the properties
\* added for the fields; a field is named by its place in the declaration.
get_schema(fs, is_input) ==
    LET req(name) == required_in_schema(fs[name], is_input)
        inc(name) == included_in_schema(fs[name], is_input)
        required == SelectSeq(field_names(fs), req)
        included == SelectSeq(field_names(fs), inc)
    IN [kind |-> "schema",
        has_required |-> required # <<>>,
        required |-> required,
        properties |-> {included[i] : i \in DOMAIN included}]

\* The classes: up to MaxFields fields, declared in any order.
Classes == UNION {[1..n -> Fields] : n \in 0..MaxFields}

GetSchema(is_input) ==
    /\ pc = "idle"
    /\ last' = [op |-> "get_schema", is_input |-> is_input,
                result |-> get_schema(naucse__fields, is_input)]
    /\ UNCHANGED <<courseVars, url_factories, loadVars, heap, naucse__fields>>

InitSchema ==
    /\ CourseInit
    /\ sequence = <<>>
    /\ attrs = <<>>
    /\ data = NoData
    /\ fields = <<>>
    /\ heap = <<>>
    /\ naucse__fields \in Classes
    /\ materials = <<>>
    /\ renderer \in {w \in Worlds : w.mode = "none"}
    /\ url_factories = AllFactories

NextSchema == \E is_input \in BOOLEAN : GetSchema(is_input)

SpecSchema == InitSchema /\ [][NextSchema]_vars

C14_Required(i) == \E k \in DOMAIN last.result.required : last.result.required[k] = i

\* C14 (amended): in the input view a field is required unless it is
\* optional, has a default, has a factory or is input_optional; a field with
\* a factory that is not optional is absent from the required list of the
\* input view and present in that of the output view.
C14_RequiredByView ==
    (last.op = "get_schema")
        => \A i \in DOMAIN naucse__fields :
             LET f == naucse__fields[i]
             IN /\ last.is_input
                    => (C14_Required(i) <=> ~(\/ f.optional
                                          \/ f.default # "NOTHING"
                                          \/ f.factory # "None"
                                          \/ f.input_optional))
                /\ (f.factory # "None" /\ ~f.optional)
                    => (C14_Required(i) <=> ~last.is_input)

\* C14 (as stated): in the input view a field is required unless it is
\* optional, has a default or has a factory.
C14_RequiredUnlessThree ==
    (last.op = "get_schema" /\ last.is_input)
        => \A i \in DOMAIN naucse__fields :
             LET f == naucse__fields[i]
             IN C14_Required(i) <=> ~(\/ f.optional
                                  \/ f.default # "NOTHING"
                                  \/ f.factory # "None")

\* The input schema of a class with a plain field and an input_optional
\* field requires the first only.
C14_Witness ==
    /\ last.op = "get_schema"
    /\ last.is_input
    /\ Len(naucse__fields) = 2
    /\ naucse__fields[1] = [optional |-> FALSE, default |-> "NOTHING",
                            factory |-> "None", input_optional |-> FALSE,
                            output_only |-> FALSE]
    /\ naucse__fields[2] = [optional |-> FALSE, default |-> "NOTHING",
                            factory |-> "None", input_optional |-> TRUE,
                            output_only |-> FALSE]
    /\ last.result.required = <<1>>

\* -------------------------------------------------------------- Model.dump
DumpClasses == {"RunYear", "Course"}
DumpYear == 2019

\* self.get_url(url_type, external=True) of the object id; NoURLType is a
\* NoURL, so both lookups that fail are caught by "except NoURL".
dump_get_url(factories, h, id, url_type) ==
    model_get_url(factories, [type |-> h[id].cls, id |-> id], url_type, TRUE)

RECURSIVE dump(_, _, _, _)
RECURSIVE to_jsondata(_, _, _)

\* field.dump(self, result) for every field: RunYear has year and runs, the
\* fields of a Course are taken as one value.
dump_fields(factories, h, id) ==
    IF h[id].cls = "RunYear"
    THEN [year |-> h[id].year,
          runs |-> [slug \in DOMAIN h[id].runs |->
                       to_jsondata(factories, h, h[id].runs[slug])]]
    ELSE [slug |-> h[id].slug]

\* Model.dump(expanded=...); the result validates against the output schema.
dump(factories, h, id, expanded) ==
    LET api_url == dump_get_url(factories, h, id, "api")
        url == dump_get_url(factories, h, id, "web")
    IN IF api_url.kind = "url" /\ ~expanded
       THEN [kind |-> "ref", ref |-> api_url.value]
       ELSE [kind |-> "body", cls |-> h[id].cls,
             api_url |-> IF api_url.kind = "url" THEN <<api_url.value>> ELSE <<>>,
             url |-> IF url.kind = "url" THEN <<url.value>> ELSE <<>>,
             fields |-> dump_fields(factories, h, id),
             schema |-> expanded]

\* to_jsondata of a Model, the value of a dict field.
to_jsondata(factories, h, id) ==
    LET url == dump_get_url(factories, h, id, "api")
    IN IF url.kind = "url"
       THEN [kind |-> "ref", ref |-> url.value]
       ELSE dump(factories, h, id, FALSE)

\* A Root with one RunYear of n runs.
DumpHeap(n) ==
    LET h1 == root_init(<<>>)
        h2 == run_year_init(h1, DumpYear, 1)
    IN load_runs(h2, 1, 2, DumpYear, [i \in 1..n |-> i])

\* The url_factories: each url type absent, or given for some of the classes.
DumpTables ==
    UNION {[T -> UNION {[C -> {"f"}] : C \in SUBSET DumpClasses}] :
           T \in SUBSET UrlTypes}

Dump(id, expanded) ==
    /\ pc = "idle"
    /\ heap[id].cls \in DumpClasses
    /\ last' = [op |-> "dump", obj |-> id, expanded |-> expanded,
                result |-> dump(url_factories, heap, id, expanded)]
    /\ UNCHANGED <<courseVars, url_factories, loadVars, heap, naucse__fields>>

InitDump ==
    /\ CourseInit
    /\ sequence = <<>>
    /\ attrs = <<>>
    /\ data = NoData
    /\ fields = <<>>
    /\ naucse__fields = <<>>
    /\ heap \in {DumpHeap(n) : n \in 0..MaxCourses}
    /\ materials = <<>>
    /\ renderer \in {w \in Worlds : w.mode = "none"}
    /\ url_factories \in DumpTables

NextDump == \E id \in DOMAIN heap, expanded \in BOOLEAN : Dump(id, expanded)

SpecDump == InitDump /\ [][NextDump]_vars

C15_ApiUrlResolves(id) == dump_get_url(url_factories, heap, id, "api").kind = "url"

\* C15: an abbreviated dump of a node whose API URL resolves is exactly the
\* reference; the runs of a dumped RunYear whose Courses have API URLs are
\* references when the dump is abbreviated and full bodies when it is not.
C15_Abbreviation ==
    (last.op = "dump")
        => /\ (~last.expanded /\ C15_ApiUrlResolves(last.obj))
                => last.result =
                     [kind |-> "ref",
                      ref |-> dump_get_url(url_factories, heap, last.obj, "api").value]
           /\ (heap[last.obj].cls = "RunYear" /\ last.result.kind = "body")
                => \A slug \in DOMAIN heap[last.obj].runs :
                      C15_ApiUrlResolves(heap[last.obj].runs[slug])
                         => last.result.fields.runs[slug].kind =
                               (IF last.expanded THEN "body" ELSE "ref")

\* ------------------------------------------------ the dates of a Course
\* The sessions of the loaded Course that have a date.
C21_Dated == {i \in DOMAIN fields.sessions : fields.sessions[i].date # None}

\* C21: start_date is the least and end_date the greatest date of the
\* sessions that have one; both are None exactly when no session has a date,
\* and otherwise start_date <= end_date and each is the date of a session.
C21_DerivedDates ==
    ("end_date" \in DOMAIN fields)
        => /\ (fields.start_date = None) <=> (C21_Dated = {})
           /\ (fields.end_date = None) <=> (C21_Dated = {})
           /\ (C21_Dated # {})
                => /\ \E i \in C21_Dated : fields.sessions[i].date = fields.start_date
                   /\ \E i \in C21_Dated : fields.sessions[i].date = fields.end_date
                   /\ \A i \in C21_Dated :
                         /\ fields.start_date <= fields.sessions[i].date
                         /\ fields.sessions[i].date <= fields.end_date
                   /\ fields.start_date <= fields.end_date

\* A Course whose later session comes first: the dates are taken by value,
\* not by place.
C21_Witness ==
    /\ "end_date" \in DOMAIN fields
    /\ Len(fields.sessions) = 2
    /\ fields.sessions[1].date = 2
    /\ fields.sessions[2].date = 1
    /\ fields.start_date = 1
    /\ fields.end_date = 2

\* A Course one of whose two sessions has no date.
C21_WitnessUndated ==
    /\ "end_date" \in DOMAIN fields
    /\ Len(fields.sessions) = 2
    /\ fields.sessions[1].date = None
    /\ fields.sessions[2].date = 2
    /\ fields.start_date = 2
    /\ fields.end_date = 2

\* ------------------------------------------- loaded and requested lessons
\* C22: between calls, no slug is both in lessons and in _lesson_shims, also
\* when the content of a lesson links to the lesson itself or to a lesson of
\* the same batch.
C22_LoadedNotRequested ==
    DOMAIN lessons \cap DOMAIN lesson_shims = {}

\* Two lessons that link to each other were loaded in one batch, and nothing
\* is left requested.
C22_Witness ==
    /\ last.op = "load_lessons"
    /\ renderer.mode = "chain"
    /\ renderer.cyclic
    /\ render.arg = {1, 2}
    /\ last.result.returned = {1, 2}
    /\ DOMAIN lessons = {1, 2}
    /\ DOMAIN lesson_shims = {}

\* A lesson that links to itself was loaded without having been requested.
C22_WitnessSelf ==
    /\ last.op = "load_lessons"
    /\ renderer.mode = "self"
    /\ render.arg = {1}
    /\ DOMAIN lessons = {1}
    /\ DOMAIN lesson_shims = {}

\* ------------------------------------------------- one load for a lesson
\* The step has called the renderer.
C23_Called ==
    /\ render'.n > 0
    /\ render' # render \/ last'.op = "load_lessons"

\* C23: a lesson is fetched and loaded once: no step sends the slug of a
\* stored Lesson to the renderer, and no step takes a stored Lesson away or
\* puts another object in its place.
C23_LoadedOnce ==
    [][\A slug \in DOMAIN lessons :
          /\ slug \in DOMAIN lessons'
          /\ lessons'[slug] = lessons[slug]
          /\ C23_Called => slug \notin render'.arg]_vars

\* load_lessons was called for two slugs of which the first was loaded
\* before: the renderer was asked for the second only, and the first Lesson
\* is the object of the first load.
C23_Witness ==
    /\ last.op = "load_lessons"
    /\ last.slugs = {1, 2}
    /\ render.arg = {2}
    /\ last.result.returned = {2}
    /\ DOMAIN lessons = {1, 2}
    /\ lessons[1].id = 1
    /\ lessons[2].id = 2

\* ------------------------------------------------ Session._index_materials
\* The materials of a loaded Session: with or without a lesson, with or
\* without an external link.
IndexedMaterials ==
    {Material(slug, url) : slug \in {None, 1}, url \in {"None", "http://x"}}

\* Session._index_materials, the after_load hook of Session.materials.
IndexMaterials ==
    /\ pc = "idle"
    /\ sequence' = linked_materials(materials)
    /\ attrs' = set_prev_next(attrs, linked_materials(materials))
    /\ last' = [op |-> "_index_materials", result |-> [kind |-> "None"]]
    /\ UNCHANGED <<courseVars, url_factories, naucse__fields, data, fields, heap>>

\* The materials are loaded and the hook is about to run.
InitIndex ==
    /\ CourseInit
    /\ materials \in UNION {[1..n -> IndexedMaterials] : n \in 0..MaxIndexed}
    /\ renderer \in {w \in Worlds : w.mode = "none"}
    /\ url_factories = AllFactories
    /\ sequence = <<>>
    /\ attrs = <<>>
    /\ data = NoData
    /\ fields = <<>>
    /\ heap = <<>>
    /\ naucse__fields = <<>>

NextIndex == IndexMaterials

SpecIndex == InitIndex /\ [][NextIndex]_vars

\* The places of the materials without an external link.
C24_Internal ==
    {i \in DOMAIN materials : materials[i].external_url = "None"}

\* C24: after the hook, the materials without an external link, and only
\* they, have prev and next; of two such materials with only external ones
\* between them the first has the second as next and the second the first as
\* prev; the first of all has no prev, the last no next; and no prev or next
\* is a material with an external link.
C24_ChainSkipsExternal ==
    (last.op = "_index_materials")
        => /\ DOMAIN attrs = C24_Internal
           /\ \A a, b \in C24_Internal :
                 (a < b /\ \A c \in C24_Internal : ~(a < c /\ c < b))
                    => attrs[a].next = b /\ attrs[b].prev = a
           /\ \A a \in C24_Internal :
                 /\ (\A c \in C24_Internal : a <= c) => attrs[a].prev = None
                 /\ (\A c \in C24_Internal : c <= a) => attrs[a].next = None
                 /\ attrs[a].prev \in C24_Internal \cup {None}
                 /\ attrs[a].next \in C24_Internal \cup {None}

\* A Session whose second material is an external link: the first and the
\* third are linked to each other.
C24_Witness ==
    /\ last.op = "_index_materials"
    /\ Len(materials) = 3
    /\ materials[1].external_url = "None"
    /\ materials[2].external_url = "http://x"
    /\ materials[3].external_url = "None"
    /\ attrs[1] = [prev |-> None, next |-> 3]
    /\ attrs[3] = [prev |-> 1, next |-> None]
    /\ 2 \notin DOMAIN attrs

====
